---- MODULE Spec2Model ----
(***************************************************************************)
(* State-machine model of main.py: the inactivity bot (Flask webhook +     *)
(* pyTelegramBotAPI).  One action per webhook update kind / command; the   *)
(* Telegram server (member statuses, call failures) and the wall clock are *)
(* the environment.                                                        *)
(*                                                                         *)
(* Representation:                                                         *)
(*   - Python str       -> TLA+ string                                     *)
(*   - Python None (id) -> the integer 0 (Telegram ids are never 0), see   *)
(*                         None / PyStr                                    *)
(*   - datetime         -> integer number of clock ticks, TicksPerSecond   *)
(*                         ticks to the second (sub-second precision)      *)
(*   - dict             -> sequence of entries in insertion order          *)
(***************************************************************************)
EXTENDS Integers, Sequences, FiniteSets, TLC

(***************************** bounds **************************************)
\* clock ticks per second: the sub-second resolution of datetime.utcnow()
TicksPerSecond == 2
\* the last instants at which updates arrive are 1..MaxOffset ticks into a day
MaxOffset == 1
\* the count of inactivity notices a chat has seen about a member stops here
MaxNotices == 2

(***************************** configuration *******************************)
INACTIVITY_DAYS == 14
ADMIN_IDS == {9}
SecondsPerDay == 24 * 60 * 60
DayTicks == SecondsPerDay * TicksPerSecond

\* the value of a missing id (dict.get without default)
None == 0

(***************************** input domains *******************************)
\* updates arrive at the start of the days DayMarks (days since the process
\* started) and up to MaxOffset ticks into the last of them
DayMarks == {0, 6, 8, 19, 20}
LastDay == CHOOSE d \in DayMarks : \A e \in DayMarks : e <= d
Instants == {d * DayTicks : d \in DayMarks}
            \cup {LastDay * DayTicks + o : o \in 1..MaxOffset}

SuperGroup == 0 - 100
OtherGroup == 0 - 200
Groups == {SuperGroup, OtherGroup}
Members == {1, 2}
\* the (chat, member) pairs whose notices are counted
NoticeKeys == Groups \X Members
\* a private chat has the id of the user talking to the bot
Chats == Groups \cup Members \cup ADMIN_IDS

ChatType(c) == IF c = SuperGroup THEN "supergroup"
               ELSE IF c = OtherGroup THEN "group" ELSE "private"

\* what Telegram knows about a user (getChatMember(...).user)
TgUser(u) ==
  IF u = 1 THEN [id |-> 1, username |-> "ana", first_name |-> "Ana", last_name |-> "Paz"]
  ELSE IF u = 2 THEN [id |-> 2, username |-> "", first_name |-> "Luis", last_name |-> ""]
  ELSE [id |-> u, username |-> "root", first_name |-> "", last_name |-> ""]

\* the "from"/"user" object of an inbound update: the full profile, only
\* the id, or nothing at all (u = None)
FromUser(u, full) ==
  IF u # None /\ full THEN TgUser(u)
  ELSE [id |-> u, username |-> "", first_name |-> "", last_name |-> ""]

(***************************** strings *************************************)
DigitChars == <<"0", "1", "2", "3", "4", "5", "6", "7", "8", "9">>

RECURSIVE NatStr(_)
NatStr(n) == IF n < 10 THEN DigitChars[n + 1]
             ELSE NatStr(n \div 10) \o DigitChars[(n % 10) + 1]

\* str(x) / f"{x}" of an id
PyStr(x) == IF x = None THEN "None"
            ELSE IF x < 0 THEN "-" \o NatStr(0 - x) ELSE NatStr(x)

IsDigit(ch) == \E d \in 1..10 : DigitChars[d] = ch
DigitVal(ch) == (CHOOSE d \in 1..10 : DigitChars[d] = ch) - 1

RECURSIVE AllDigits(_)
AllDigits(s) == Len(s) = 0 \/ (IsDigit(Head(s)) /\ AllDigits(Tail(s)))

RECURSIVE NatVal(_, _)
NatVal(s, acc) == IF Len(s) = 0 THEN acc
                  ELSE NatVal(Tail(s), acc * 10 + DigitVal(Head(s)))

\* int(s): ok = FALSE stands for ValueError
PyInt(s) ==
  LET neg  == Len(s) > 0 /\ Head(s) = "-"
      body == IF Len(s) > 0 /\ Head(s) \in {"-", "+"} THEN Tail(s) ELSE s
  IN IF Len(body) > 0 /\ AllDigits(body)
     THEN [ok |-> TRUE, v |-> IF neg THEN 0 - NatVal(body, 0) ELSE NatVal(body, 0)]
     ELSE [ok |-> FALSE, v |-> 0]

\* position of the first occurrence of ch in s, 0 when absent
RECURSIVE FindChar(_, _, _)
FindChar(s, ch, i) == IF Len(s) = 0 THEN 0
                      ELSE IF Head(s) = ch THEN i
                      ELSE FindChar(Tail(s), ch, i + 1)

StartsWithSlash(s) == Len(s) > 0 /\ Head(s) = "/"

_full_name(first, last) ==
  IF first # "" /\ last # "" THEN first \o " " \o last
  ELSE IF first # "" THEN first ELSE last

UpperChars == "ABCDEFGHIJKLMNOPQRSTUVWXYZ"
LowerChars == "abcdefghijklmnopqrstuvwxyz"

LowerChar(ch) == LET i == FindChar(UpperChars, ch, 1)
                 IN IF i = 0 THEN ch ELSE SubSeq(LowerChars, i, i)

\* str.lower()
RECURSIVE Lower(_)
Lower(s) == IF Len(s) = 0 THEN "" ELSE LowerChar(Head(s)) \o Lower(Tail(s))

\* s.split(sep)[0] for a text that does not start with sep
Before(s, sep) == LET i == FindChar(s, sep, 1)
                  IN IF i = 0 THEN s ELSE SubSeq(s, 1, i - 1)

\* s.split(sep)[1:] joined, "" when there is no second part
After(s, sep) == LET i == FindChar(s, sep, 1)
                 IN IF i = 0 THEN "" ELSE SubSeq(s, i + 1, Len(s))

\* cmd = text.split()[0].split("@")[0].lower()
CmdOf(text) == Lower(Before(Before(text, " "), "@"))

\* the texts of the inbound messages, and what the handlers read off them
CommandTexts == {"/start", "/config", "/scan", "/Scan@InactBot ya", "/backup",
                 "/ping", "/whois 2", "/fixnames", "/stats"}
MsgTexts == CommandTexts \cup {"hola", ""}
Cmd == [t \in MsgTexts |-> CmdOf(t)]
IsCommand == [t \in MsgTexts |-> StartsWithSlash(t)]
WhoisTarget == [t \in MsgTexts |->
                  LET arg == Before(After(t, " "), " ")
                  IN IF Len(arg) > 0 /\ AllDigits(arg) THEN NatVal(arg, 0) ELSE None]

(***************************** time ****************************************)
\* the ISO text of a datetime: microseconds dropped, "Z" appended
_dt_to_iso(dt) == [sec |-> dt \div TicksPerSecond, z |-> "Z"]

\* the parse rounding up to the next second
_iso_to_dt_up(s) == (s.sec + 1) * TicksPerSecond

\* the datetime of an ISO text written by _dt_to_iso
_iso_to_dt(s) == s.sec * TicksPerSecond

\* timedelta(days = n)
Days(n) == n * DayTicks

\* (now - last_seen).days
AgeDays(now, last_seen) == (now - last_seen) \div DayTicks

(***************************** the dict ************************************)
SameKey(e, c, u) == e.chat = c /\ e.user = u

HasKey(act, c, u) == \E i \in DOMAIN act : SameKey(act[i], c, u)

Get(act, c, u) == act[CHOOSE i \in DOMAIN act : SameKey(act[i], c, u)]

\* activity[(c, u)] = {...}: in place when the key exists, else appended
DictSet(act, e) ==
  IF HasKey(act, e.chat, e.user)
  THEN [i \in DOMAIN act |-> IF SameKey(act[i], e.chat, e.user) THEN e ELSE act[i]]
  ELSE Append(act, e)

\* the deletion taking every entry of the chat with it
DictDel_chat(act, c, u) == SelectSeq(act, LAMBDA e : e.chat # c)

\* del activity[(c, u)]
DictDel(act, c, u) == SelectSeq(act, LAMBDA e : ~SameKey(e, c, u))

(***************************** state ***************************************)
\* (records list their fields in the order TLC keeps them in)
VARIABLES
  activity,   \* the in-memory ledger: sequence of [chat, user, last_seen, username, name]
  file,       \* DATA_FILE: [exists, items]
  clock,      \* datetime.utcnow()
  status,     \* Telegram: chat status of each member
  SAFE_MODE,  \* the process's SAFE_MODE setting
  upd,        \* the last update handled, with the environment's answers
  out,        \* the Telegram API calls made while handling it
  notices,    \* Telegram: per (chat, member), the inactivity notices posted
              \* since the member's entry was last written or deleted
  scan        \* a /scan handled by a thread of its own: where ejecutar_scan
              \* is in its loop over activity.items()

vars == <<activity, file, clock, status, SAFE_MODE, upd, out, notices, scan>>

Statuses == {"member", "administrator", "creator"}

(***************************** persistence *********************************)
\* the key f"{chat_id}|{user_id}" of the JSON object
KeyStr(c, u) == PyStr(c) \o "|" \o PyStr(u)

\* chat_s, user_s = key.split("|", 1); int(chat_s); int(user_s)
\* ok = FALSE when the unpacking or an int() raises
ParseKey(k) ==
  LET bar == FindChar(k, "|", 1)
      c   == PyInt(SubSeq(k, 1, bar - 1))
      u   == PyInt(SubSeq(k, bar + 1, Len(k)))
  IN IF bar = 0 \/ ~c.ok \/ ~u.ok THEN [ok |-> FALSE, chat |-> 0, user |-> 0]
     ELSE [ok |-> TRUE, chat |-> c.v, user |-> u.v]

\* the conversions, tabulated over the ids of the model
Ids == Chats \cup {None}
Str == [x \in Ids |-> PyStr(x)]
Key == [c \in Ids, u \in Ids |-> KeyStr(c, u)]
Parsed == [k \in {Key[c, u] : c \in Ids, u \in Ids} |-> ParseKey(k)]

RawHas(items, k) == \E i \in DOMAIN items : items[i].key = k

RawSet(items, it) ==
  IF RawHas(items, it.key)
  THEN [i \in DOMAIN items |-> IF items[i].key = it.key THEN it ELSE items[i]]
  ELSE Append(items, it)

\* the dict save_activity dumps
RECURSIVE Serializable(_, _)
Serializable(act, acc) ==
  IF act = <<>> THEN acc
  ELSE LET e == Head(act)
       IN Serializable(Tail(act),
            RawSet(acc, [username  |-> e.username,
                         last_seen |-> _dt_to_iso(e.last_seen),
                         key       |-> Key[e.chat, e.user],
                         name      |-> e.name]))

\* the file written in place: a failed write leaves it empty
save_activity_inplace(act, old, io) ==
  IF io THEN [items |-> Serializable(act, <<>>), exists |-> TRUE]
  ELSE [items |-> <<>>, exists |-> TRUE]

\* save_activity: io = FALSE is an OSError while writing or replacing,
\* which is logged and leaves DATA_FILE as it was
save_activity(act, old, io) ==
  IF io THEN [items |-> Serializable(act, <<>>), exists |-> TRUE] ELSE old

\* the loop of load_activity over raw.items()
RECURSIVE Loaded(_, _)
Loaded(items, acc) ==
  IF items = <<>> THEN acc
  ELSE LET it == Head(items)
           k  == Parsed[it.key]
       IN IF ~k.ok
          THEN Loaded(Tail(items), acc)
          ELSE Loaded(Tail(items),
                 DictSet(acc, [username  |-> it.username,
                               last_seen |-> _iso_to_dt(it.last_seen),
                               chat      |-> k.chat,
                               user      |-> k.user,
                               name      |-> it.name]))

load_activity(f) == IF ~f.exists THEN <<>> ELSE Loaded(f.items, <<>>)

\* the entry written on first sight only
actualizar_actividad_once(act, c, usr, now) ==
  IF HasKey(act, c, usr.id) THEN act
  ELSE Append(act, [username  |-> usr.username,
                    last_seen |-> now,
                    chat      |-> c,
                    user      |-> usr.id,
                    name      |-> _full_name(usr.first_name, usr.last_name)])

\* actualizar_actividad: the new ledger
actualizar_actividad(act, c, usr, now) ==
  DictSet(act, [username  |-> usr.username,
                last_seen |-> now,
                chat      |-> c,
                user      |-> usr.id,
                name      |-> _full_name(usr.first_name, usr.last_name)])

(***************************** permissions *********************************)
es_grupo(chat_type) == chat_type \in {"group", "supergroup"}

\* keys of a message that count as content
ActivityKeys == {"text", "photo", "video", "audio", "document", "sticker",
                 "voice", "animation", "video_note"}

\* any message with a content key counted, commands too
es_mensaje_de_actividad_any(msg) == msg.keys \cap ActivityKeys # {}

es_mensaje_de_actividad(msg) ==
  IF "text" \in msg.keys /\ IsCommand[msg.text] THEN FALSE
  ELSE msg.keys \cap ActivityKeys # {}

es_admin_usuario(u) == u \in ADMIN_IDS

\* bot.get_chat_member(chat, u).status; "error" when the call raises
\* (query = FALSE: the API call fails; an id Telegram does not know)
MemberStatus(st, u, query) ==
  IF query /\ u \in Members THEN st[u] ELSE "error"

\* the check letting the sender through when the status query fails
es_admin_en_este_chat_open(st, chat_type, u, query) ==
  IF u \in ADMIN_IDS THEN TRUE
  ELSE IF chat_type \in {"group", "supergroup"}
       THEN ~query \/ (u \in Members /\ st[u] \in {"administrator", "creator"})
       ELSE FALSE

es_admin_en_este_chat(st, chat_type, u, query) ==
  IF es_admin_usuario(u) THEN TRUE
  ELSE IF es_grupo(chat_type)
       THEN MemberStatus(st, u, query) \in {"administrator", "creator"}
       ELSE FALSE

\* the bot's own membership as get_chat_member reports it
BotAnswers ==
  { [status |-> "administrator", can_restrict_members |-> TRUE],
    [status |-> "administrator", can_restrict_members |-> FALSE],
    [status |-> "creator",       can_restrict_members |-> FALSE],
    [status |-> "member",        can_restrict_members |-> FALSE],
    [status |-> "error",         can_restrict_members |-> FALSE] }

\* the check that lets the scan run when the bot's status is unknown
puede_expulsar_lenient(bot) ==
  IF bot.status = "error" THEN TRUE
  ELSE /\ bot.status \in {"administrator", "creator"}
       /\ (bot.can_restrict_members \/ bot.status = "creator")

puede_expulsar(bot) ==
  IF bot.status = "error" THEN FALSE
  ELSE /\ bot.status \in {"administrator", "creator"}
       /\ (bot.can_restrict_members \/ bot.status = "creator")

(***************************** API calls ***********************************)
\* one call of the Telegram API: ok = FALSE when it raised
\* (expulsados, fallidos: the lists the summary message renders)
Call(api, c, u, text, ok) ==
  [ok |-> ok, text |-> text, chat |-> c, user |-> u, api |-> api,
   expulsados |-> <<>>, fallidos |-> <<>>]

Send(c, text) == Call("send_message", c, None, text, TRUE)

\* what can go wrong while one member is processed
Faults == {"none", "lookup", "send", "ban", "unban"}

\* resolve_display: @username > name > looked-up profile > ID
resolve_display(u, cached, lookup_ok) ==
  IF cached.username # "" THEN "@" \o cached.username
  ELSE IF cached.name # "" THEN cached.name
  ELSE IF lookup_ok /\ u \in Members
       THEN IF TgUser(u).username # "" THEN "@" \o TgUser(u).username
            ELSE IF _full_name(TgUser(u).first_name, TgUser(u).last_name) # ""
                 THEN _full_name(TgUser(u).first_name, TgUser(u).last_name)
                 ELSE "ID:" \o Str[u]
       ELSE "ID:" \o Str[u]

\* expulsar_usuario: the calls made and the (ok, err) returned
expulsar_usuario(c, u, fault) ==
  IF u \notin Members \/ fault = "ban"
  THEN [ok |-> FALSE,
        calls |-> <<Call("ban_chat_member", c, u, "", FALSE)>>,
        err |-> "ban"]
  ELSE IF fault = "unban"
  THEN [ok |-> FALSE,
        calls |-> <<Call("ban_chat_member", c, u, "", TRUE),
                    Call("unban_chat_member", c, u, "", FALSE)>>,
        err |-> "unban"]
  ELSE [ok |-> TRUE,
        calls |-> <<Call("ban_chat_member", c, u, "", TRUE),
                    Call("unban_chat_member", c, u, "", TRUE)>>,
        err |-> ""]

(***************************** /scan ***************************************)
\* the comparison with the threshold itself counted as crossed
Stale_inclusive(e, now) == e.last_seen <= now - Days(INACTIVITY_DAYS)

\* last_seen < umbral, umbral = utcnow() - timedelta(days = INACTIVITY_DAYS)
Stale(e, now) == e.last_seen < now - Days(INACTIVITY_DAYS)

\* the selection starting three days before the threshold
Inactivos_lead(act, c, now) ==
  SelectSeq(act, LAMBDA e : e.chat = c /\ e.last_seen < now - Days(INACTIVITY_DAYS - 3))

\* the selection leaving out the members already notified
Inactivos_unwarned(act, c, now) ==
  SelectSeq(act, LAMBDA e : /\ e.chat = c /\ e.last_seen < now - Days(INACTIVITY_DAYS)
                            /\ (<<c, e.user>> \in NoticeKeys => notices[<<c, e.user>>] = 0))

\* the selection over the whole ledger, whatever the chat
Inactivos_all(act, c, now) == SelectSeq(act, LAMBDA e : Stale(e, now))

\* inactivos: the stale entries of the chat, in dict order
Inactivos(act, c, now) == SelectSeq(act, LAMBDA e : e.chat = c /\ Stale(e, now))

\* the per-member loop; raised = TRUE when a notice's send_message raised,
\* which leaves ejecutar_scan at once
RECURSIVE ScanLoop(_, _, _, _, _, _)
ScanLoop(rest, c, now, safe, fault, acc) ==
  IF rest = <<>> THEN acc
  ELSE LET e       == Head(rest)
           display == resolve_display(e.user, e, fault[e.user] # "lookup")
       IN IF safe
          THEN IF fault[e.user] = "send"
               THEN [acc EXCEPT !.calls = Append(@, Call("send_message", c, e.user, "inactivo", FALSE)),
                                !.raised = TRUE]
               ELSE ScanLoop(Tail(rest), c, now, safe, fault,
                      [acc EXCEPT !.calls = Append(@, Call("send_message", c, e.user, "inactivo", TRUE))])
          ELSE LET r == expulsar_usuario(c, e.user, fault[e.user])
               IN ScanLoop(Tail(rest), c, now, safe, fault,
                    [acc EXCEPT !.calls = @ \o r.calls,
                                !.expulsados = IF r.ok THEN Append(@, <<e.user, display>>) ELSE @,
                                !.fallidos = IF r.ok THEN @ ELSE Append(@, <<e.user, display, r.err>>)])

\* ejecutar_scan once inactivos is built: [calls, expulsados, fallidos,
\* raised, saved]
ScanActs(inactivos, c, now, safe, fault) ==
  LET empty == [expulsados |-> <<>>, fallidos |-> <<>>, calls |-> <<>>,
                raised |-> FALSE, saved |-> FALSE]
  IN IF inactivos = <<>>
     THEN [empty EXCEPT !.calls = <<Send(c, "no_inactivos")>>]
     ELSE LET r == ScanLoop(inactivos, c, now, safe, fault, empty)
          IN IF r.raised THEN r
             ELSE [r EXCEPT !.saved = TRUE,
                            !.calls = Append(@,
                               IF safe THEN Send(c, "modo_seguro")
                               ELSE [Send(c, "expulsiones") EXCEPT
                                       !.expulsados = r.expulsados,
                                       !.fallidos = r.fallidos])]

\* ejecutar_scan handled in one piece: the selection, then the loop
ejecutar_scan(act, c, now, safe, fault) ==
  ScanActs(Inactivos(act, c, now), c, now, safe, fault)

(***************************** commands ************************************)
\* /fixnames: the entries of the chat without @ and without name get the
\* name Telegram reports, when the lookup works and there is one
FixNames(act, c, fault) ==
  [i \in DOMAIN act |->
     LET e == act[i]
     IN IF e.chat = c /\ e.username = "" /\ e.name = ""
           /\ e.user \in Members /\ fault[e.user] # "lookup"
           /\ _full_name(TgUser(e.user).first_name, TgUser(e.user).last_name) # ""
        THEN [e EXCEPT !.name = _full_name(TgUser(e.user).first_name, TgUser(e.user).last_name)]
        ELSE e]

\* enviar_ping: the message with the button, pinned
enviar_ping(c) == <<Send(c, "pase_de_lista"), Call("pin_chat_message", c, None, "", TRUE)>>

\* /whois: usage note without a target, else the member's data or the error
Whois(c, text, reply_to, query) ==
  LET target == IF WhoisTarget[text] # None THEN WhoisTarget[text] ELSE reply_to
  IN IF target = None THEN <<Send(c, "uso_whois")>>
     ELSE IF query /\ target \in Members THEN <<Send(c, "whois_info")>>
     ELSE <<Send(c, "whois_error")>>

\* /backup: the file goes to the sender's private chat
Backup(c, chat_type, u, f, dm) ==
  (IF chat_type # "private" THEN <<Send(c, "te_envio")>> ELSE <<>>)
  \o (IF ~dm THEN <<Call(IF f.exists THEN "send_document" ELSE "send_message",
                         u, None, "backup", FALSE),
                    Send(c, "no_pude_backup")>>
      ELSE IF f.exists THEN <<Call("send_document", u, None, "backup", TRUE)>>
      ELSE <<Send(u, "no_existe_archivo")>>)

\* the environment's answers while one update is handled
\*   io: file writes work; query: get_chat_member works; dm: the private
\*   send works; bot: the bot's own membership; fault: per processed member
NoFault == [u \in Members \cup {None} |-> "none"]
Env(io, query, dm, bot, fault) ==
  [io |-> io, query |-> query, bot |-> bot, fault |-> fault, dm |-> dm]
GoodBot == [status |-> "administrator", can_restrict_members |-> TRUE]
CalmEnv == Env(TRUE, TRUE, TRUE, GoodBot, NoFault)

\* handle_message after the permission check (touched: no key written)
RunCommand(act, f, safe, now, c, u, msg, env) ==
  LET cmd       == Cmd[msg.text]
      chat_type == ChatType(c)
      same      == [activity |-> act, file |-> f, out |-> <<>>, touched |-> {}]
  IN IF cmd \in {"/start", "/help"}
     THEN [same EXCEPT !.out = <<Send(c, IF chat_type = "private" THEN "hola" ELSE "operativo")>>]
     ELSE IF cmd = "/config" THEN [same EXCEPT !.out = <<Send(c, "config")>>]
     ELSE IF cmd = "/scan"
     THEN IF ~es_grupo(chat_type) THEN [same EXCEPT !.out = <<Send(c, "scan_en_grupos")>>]
          ELSE IF ~puede_expulsar(env.bot) THEN [same EXCEPT !.out = <<Send(c, "sin_permisos")>>]
          ELSE LET r == ejecutar_scan(act, c, now, safe, env.fault)
               IN [activity |-> act,
                   file     |-> IF r.saved THEN save_activity(act, f, env.io) ELSE f,
                   out      |-> r.calls,
                   touched  |-> {}]
     ELSE IF cmd = "/backup"
     THEN [same EXCEPT !.out = Backup(c, chat_type, u, f, env.dm)]
     ELSE IF cmd = "/ping"
     THEN [same EXCEPT !.out = IF es_grupo(chat_type) THEN enviar_ping(c)
                                ELSE <<Send(c, "ping_en_grupos")>>]
     ELSE IF cmd = "/whois"
     THEN [same EXCEPT !.out = Whois(c, msg.text, msg.reply_to, env.query)]
     ELSE IF cmd = "/fixnames"
     THEN LET fixed == FixNames(act, c, env.fault)
          IN [activity |-> fixed,
              file     |-> save_activity(fixed, f, env.io),
              out      |-> <<Send(c, "nombres_completados")>>,
              touched  |-> {}]
     ELSE same

\* handle_message: [activity, file, out, touched], touched being the keys
\* of the ledger written or deleted
handle_message(act, f, st, safe, now, c, u, full, msg, env) ==
  LET chat_type == ChatType(c)
      usr       == FromUser(u, full)
      text      == IF "text" \in msg.keys THEN msg.text ELSE ""
      recorded  == es_grupo(chat_type) /\ es_mensaje_de_actividad(msg)
      act1      == IF recorded THEN actualizar_actividad(act, c, usr, now) ELSE act
      f1        == IF recorded THEN save_activity(act1, f, env.io) ELSE f
      touched   == IF recorded THEN {<<c, u>>} ELSE {}
  IN IF ~IsCommand[text]
     THEN [activity |-> act1, file |-> f1, out |-> <<>>, touched |-> touched]
     ELSE IF ~es_admin_en_este_chat(st, chat_type, u, env.query)
     THEN [activity |-> act1, file |-> f1, out |-> <<Send(c, "solo_admins")>>,
           touched |-> touched]
     ELSE [RunCommand(act1, f1, safe, now, c, u, msg, env) EXCEPT !.touched = touched]

(***************************** other updates *******************************)
\* handle_callback: [activity, file, out, touched]
handle_callback(act, f, now, c, u, full, data, env) ==
  IF data = "ping:active" /\ c # None /\ u # None
  THEN LET act1 == actualizar_actividad(act, c, FromUser(u, full), now)
       IN [activity |-> act1,
           file     |-> save_activity(act1, f, env.io),
           out      |-> <<Call("answer_callback_query", c, u, "anotado", env.query)>>,
           touched  |-> {<<c, u>>}]
  ELSE [activity |-> act, file |-> f, out |-> <<>>, touched |-> {}]

\* handle_chat_member_update: [activity, file, out, touched]
handle_chat_member_update(act, f, now, c, u, full, new_status, env) ==
  IF c = None \/ u = None
  THEN [activity |-> act, file |-> f, out |-> <<>>, touched |-> {}]
  ELSE IF new_status \in {"member", "administrator", "creator"}
  THEN LET act1 == actualizar_actividad(act, c, FromUser(u, full), now)
       IN [activity |-> act1, file |-> save_activity(act1, f, env.io), out |-> <<>>,
           touched |-> {<<c, u>>}]
  ELSE IF new_status \in {"left", "kicked"} /\ HasKey(act, c, u)
  THEN LET act1 == DictDel(act, c, u)
       IN [activity |-> act1, file |-> save_activity(act1, f, env.io), out |-> <<>>,
           touched |-> {<<c, u>>}]
  ELSE [activity |-> act, file |-> f, out |-> <<>>, touched |-> {}]

(***************************** inputs **************************************)
NoMsg == [text |-> "", keys |-> {}, reply_to |-> None]
TextMsg(t) == [text |-> t, keys |-> {"text"}, reply_to |-> None]
\* the payload kept of a callback (its data) or a membership change (its status)
Payload(t) == [text |-> t, keys |-> {}, reply_to |-> None]

\* the faults a member can meet while a scan processes it: none unless it
\* is stale; the notice's send in dry-run mode, the ban or the unban
\* otherwise; the display lookup when the ledger has no name for it
AllowedFaults(act, c, now, safe, u) ==
  IF ~(HasKey(act, c, u) /\ Stale(Get(act, c, u), now)) THEN {"none"}
  ELSE {"none"}
       \cup (IF safe THEN {"send"} ELSE {"ban", "unban"})
       \cup (IF Get(act, c, u).username = "" /\ Get(act, c, u).name = ""
             THEN {"lookup"} ELSE {})

ScanFaults(act, c, now, safe) ==
  LET ok == [u \in Members |-> AllowedFaults(act, c, now, safe, u)]
  IN {[u \in Members \cup {None} |-> IF u = None THEN "none" ELSE fl[u]] :
        fl \in {g \in [Members -> Faults] : \A u \in Members : g[u] \in ok[u]}}

\* the lookups of /fixnames that can fail
FixFaults(act, c) ==
  LET ok == [u \in Members |->
               IF HasKey(act, c, u) /\ Get(act, c, u).username = ""
                  /\ Get(act, c, u).name = ""
               THEN {"none", "lookup"} ELSE {"none"}]
  IN {[u \in Members \cup {None} |-> IF u = None THEN "none" ELSE fl[u]] :
        fl \in {g \in [Members -> {"none", "lookup"}] : \A u \in Members : g[u] \in ok[u]}}

\* the environments that make a difference to a command
CmdEnvs(act, st, now, safe, c, u, text) ==
  LET cmd  == Cmd[text]
      auth == es_admin_en_este_chat(st, ChatType(c), u, TRUE)
  IN {CalmEnv}
     \cup (IF ~es_admin_usuario(u) /\ es_grupo(ChatType(c))
           THEN {Env(TRUE, FALSE, TRUE, GoodBot, NoFault)} ELSE {})
     \cup (IF auth /\ cmd = "/scan" /\ es_grupo(ChatType(c))
           THEN {Env(TRUE, TRUE, TRUE, GoodBot, fl) : fl \in ScanFaults(act, c, now, safe)}
                \cup (IF es_admin_usuario(u) /\ text = "/scan"
                      THEN {Env(TRUE, TRUE, TRUE, b, NoFault) : b \in BotAnswers}
                      ELSE {})
           ELSE {})
     \cup (IF auth /\ cmd = "/fixnames"
           THEN {Env(TRUE, TRUE, TRUE, GoodBot, fl) : fl \in FixFaults(act, c)}
           ELSE {})
     \cup (IF auth /\ cmd = "/whois" THEN {Env(TRUE, FALSE, TRUE, GoodBot, NoFault)} ELSE {})
     \cup (IF auth /\ cmd = "/backup" THEN {Env(TRUE, TRUE, FALSE, GoodBot, NoFault)} ELSE {})

\* what is kept of an update: its kind, chat, sender, payload, what
\* Telegram said about the bot's own membership and whether the file
\* could be written while it was handled
Update(kind, c, u, full, msg, env) ==
  [full |-> full, chat |-> c, user |-> u, io |-> env.io, msg |-> msg,
   query |-> env.query, bot |-> env.bot, kind |-> kind]

\* the chat's history of inactivity notices after an update was handled:
\* a key written or deleted starts again at 0, a notice posted counts
Min(a, b) == IF a < b THEN a ELSE b
Posted(calls, k) ==
  Cardinality({i \in DOMAIN calls :
                 /\ calls[i].api = "send_message" /\ calls[i].text = "inactivo"
                 /\ calls[i].ok /\ calls[i].chat = k[1] /\ calls[i].user = k[2]})
NoticesAfter(old, calls, touched) ==
  [k \in NoticeKeys |->
     IF k \in touched THEN 0 ELSE Min(MaxNotices, old[k] + Posted(calls, k))]

(***************************** actions *************************************)
\* no /scan is being handled by a thread of its own
\*   pc: idle, enum (in the for over activity.items()), act (inactivos
\*   built), raised (the iterator raised RuntimeError)
\*   now: utcnow() when umbral was computed; size: len(activity) when the
\*   iterator was made; pos: entries it has yielded; snapshot: the ledger
\*   at that moment
NoScan ==
  [now |-> 0, chat |-> None, inactivos |-> <<>>, pc |-> "idle", size |-> 0,
   pos |-> 0, snapshot |-> <<>>]

Init ==
  /\ activity = <<>>
  /\ file = [items |-> <<>>, exists |-> FALSE]
  /\ clock = 0
  /\ status = [u \in Members |-> IF u = 2 THEN "creator" ELSE "member"]
  /\ SAFE_MODE \in BOOLEAN
  /\ upd = Update("start", None, None, TRUE, NoMsg, CalmEnv)
  /\ out = <<>>
  /\ notices = [k \in NoticeKeys |-> 0]
  /\ scan = NoScan

\* time passing with a timer that sweeps the supergroup at every instant
Advance_sweep(t) ==
  /\ t > clock
  /\ clock' = t
  /\ upd' = Update("clock", None, None, TRUE, NoMsg, CalmEnv)
  /\ out' = ejecutar_scan(activity, SuperGroup, t, SAFE_MODE, NoFault).calls
  /\ UNCHANGED <<activity, file, status, SAFE_MODE, notices, scan>>

\* time passes until the next update arrives
Advance(t) ==
  /\ t > clock
  /\ clock' = t
  /\ upd' = Update("clock", None, None, TRUE, NoMsg, CalmEnv)
  /\ out' = <<>>
  /\ UNCHANGED <<activity, file, status, SAFE_MODE, notices, scan>>

\* the chat's creator promotes or demotes a member (Telegram's state)
SetStatus(u, s) ==
  /\ status[u] # s
  /\ status' = [status EXCEPT ![u] = s]
  /\ upd' = Update("status", None, u, TRUE, NoMsg, CalmEnv)
  /\ out' = <<>>
  /\ UNCHANGED <<activity, file, clock, SAFE_MODE, notices, scan>>

\* the process is restarted: main() loads DATA_FILE
Restart ==
  /\ activity' = load_activity(file)
  /\ upd' = Update("restart", None, None, TRUE, NoMsg, CalmEnv)
  /\ out' = <<>>
  /\ UNCHANGED <<file, clock, status, SAFE_MODE, notices, scan>>

\* webhook: {"message": ...}
Message(c, u, full, msg, env) ==
  /\ LET r == handle_message(activity, file, status, SAFE_MODE, clock, c, u, full, msg, env)
     IN /\ activity' = r.activity
        /\ file' = r.file
        /\ out' = r.out
        /\ notices' = NoticesAfter(notices, r.out, r.touched)
  /\ upd' = Update("message", c, u, full, msg, env)
  /\ UNCHANGED <<clock, status, SAFE_MODE, scan>>

\* webhook: {"edited_message": ...} is dropped
EditedMessage(c, u) ==
  /\ upd' = Update("edited_message", c, u, TRUE, TextMsg("hola"), CalmEnv)
  /\ out' = <<>>
  /\ UNCHANGED <<activity, file, clock, status, SAFE_MODE, notices, scan>>

\* webhook: {"callback_query": ...}
Callback(c, u, full, data, env) ==
  /\ LET r == handle_callback(activity, file, clock, c, u, full, data, env)
     IN /\ activity' = r.activity
        /\ file' = r.file
        /\ out' = r.out
        /\ notices' = NoticesAfter(notices, r.out, r.touched)
  /\ upd' = Update("callback_query", c, u, full, Payload(data), env)
  /\ UNCHANGED <<clock, status, SAFE_MODE, scan>>

\* webhook: {"chat_member": ...}
ChatMember(c, u, full, new_status, env) ==
  /\ LET r == handle_chat_member_update(activity, file, clock, c, u, full, new_status, env)
     IN /\ activity' = r.activity
        /\ file' = r.file
        /\ out' = r.out
        /\ notices' = NoticesAfter(notices, r.out, r.touched)
  /\ upd' = Update("chat_member", c, u, full, Payload(new_status), env)
  /\ UNCHANGED <<clock, status, SAFE_MODE, scan>>

\* A /scan handled while other updates are handled by other threads of the
\* server: handle_message up to the for over activity.items(), where umbral
\* is computed and the dict's iterator is made
ScanBegin(c, u, env) ==
  /\ scan.pc = "idle"
  /\ ~es_mensaje_de_actividad(TextMsg("/scan"))
  /\ es_admin_en_este_chat(status, ChatType(c), u, env.query)
  /\ es_grupo(ChatType(c))
  /\ puede_expulsar(env.bot)
  /\ scan' = [now |-> clock, chat |-> c, inactivos |-> <<>>, pc |-> "enum",
              size |-> Len(activity), pos |-> 0, snapshot |-> activity]
  /\ upd' = Update("message", c, u, TRUE, TextMsg("/scan"), env)
  /\ out' = <<>>
  /\ UNCHANGED <<activity, file, clock, status, SAFE_MODE, notices>>

\* one turn of the for: the iterator raises RuntimeError ("dictionary
\* changed size during iteration") when len(activity) is no longer what it
\* was, stops after the last entry, and yields the next entry otherwise
ScanNext ==
  /\ scan.pc = "enum"
  /\ scan' = IF Len(activity) # scan.size THEN [scan EXCEPT !.pc = "raised"]
             ELSE IF scan.pos = Len(activity) THEN [scan EXCEPT !.pc = "act"]
             ELSE LET e == activity[scan.pos + 1]
                  IN [scan EXCEPT
                        !.pos = @ + 1,
                        !.inactivos = IF e.chat = scan.chat /\ Stale(e, scan.now)
                                      THEN Append(@, e) ELSE @]
  /\ UNCHANGED <<activity, file, clock, status, SAFE_MODE, upd, out, notices>>

\* the rest of ejecutar_scan, over the inactivos collected
ScanAct(env) ==
  /\ scan.pc = "act"
  /\ LET r == ScanActs(scan.inactivos, scan.chat, clock, SAFE_MODE, env.fault)
     IN /\ out' = r.calls
        /\ file' = IF r.saved THEN save_activity(activity, file, env.io) ELSE file
        /\ notices' = NoticesAfter(notices, r.calls, {})
  /\ scan' = NoScan
  /\ UNCHANGED <<activity, clock, status, SAFE_MODE, upd>>

\* the RuntimeError leaves ejecutar_scan and handle_message and is logged
\* by webhook: no call is made, nobody is told
ScanRaised ==
  /\ scan.pc = "raised"
  /\ scan' = NoScan
  /\ UNCHANGED <<activity, file, clock, status, SAFE_MODE, upd, out, notices>>

\* what member 1 may send as a command, and the operator's commands
MemberCommands == {"/scan", "/fixnames", "/ping", "/backup"}

Photo == [text |-> "", keys |-> {"photo"}, reply_to |-> None]
Pinned == [text |-> "", keys |-> {"pinned_message"}, reply_to |-> None]

\* The sweep: the supergroup over three weeks.  Member 1 writes and
\* presses the button and may be made administrator; member 2, the chat's
\* creator, sends photos (with or without the profile), joins and is
\* removed; the operator runs /scan, during which calls may fail.
Next ==
  \/ \E t \in Instants : Advance(t)
  \/ \E s \in {"member", "administrator"} : SetStatus(1, s)
  \/ Message(SuperGroup, 1, TRUE, TextMsg("hola"), CalmEnv)
  \/ \E full \in BOOLEAN : Message(SuperGroup, 2, full, Photo, CalmEnv)
  \/ \E u \in ADMIN_IDS :
       \E fl \in ScanFaults(activity, SuperGroup, clock, SAFE_MODE) :
          Message(SuperGroup, u, TRUE, TextMsg("/scan"), Env(TRUE, TRUE, TRUE, GoodBot, fl))
  \/ Callback(SuperGroup, 1, TRUE, "ping:active", CalmEnv)
  \/ \E new_status \in {"member", "kicked"} :
       ChatMember(SuperGroup, 2, TRUE, new_status, CalmEnv)

Spec == Init /\ [][Next]_vars

\* The dispatcher: every command, from the operator, from member 1 (plain
\* member or administrator) and in private chats, with the answers of
\* Telegram that make a difference to each.
NextCmd ==
  \/ Advance(LastDay * DayTicks)
  \/ \E s \in {"member", "administrator"} : SetStatus(1, s)
  \/ \E msg \in {TextMsg("hola"), Pinned} : Message(SuperGroup, 1, TRUE, msg, CalmEnv)
  \/ Message(SuperGroup, 2, FALSE, Photo, CalmEnv)
  \/ \E text \in MemberCommands :
       \E env \in CmdEnvs(activity, status, clock, SAFE_MODE, SuperGroup, 1, text) :
          Message(SuperGroup, 1, TRUE, TextMsg(text), env)
  \/ \E u \in ADMIN_IDS, text \in CommandTexts :
       \E env \in CmdEnvs(activity, status, clock, SAFE_MODE, SuperGroup, u, text) :
          Message(SuperGroup, u, TRUE, TextMsg(text), env)
  \/ \E u \in {1} \cup ADMIN_IDS, text \in {"/start", "/scan"} :
       Message(u, u, TRUE, TextMsg(text), CalmEnv)

SpecCmd == Init /\ [][NextCmd]_vars

\* The store: updates with and without a sender, at instants within and
\* between seconds, and restarts of the process.
NextStore ==
  \/ \E o \in 0..MaxOffset : Advance(LastDay * DayTicks + o)
  \/ Restart
  \/ \E u \in {1, None} : Message(SuperGroup, u, TRUE, TextMsg("hola"), CalmEnv)
  \/ Message(SuperGroup, 2, FALSE, Photo, CalmEnv)
  \/ EditedMessage(SuperGroup, 2)
  \/ \E u \in {1, None}, data \in {"ping:active", "otro"} :
       Callback(SuperGroup, u, TRUE, data, CalmEnv)
  \/ \E u \in {2, None}, new_status \in {"member", "left", "kicked", "restricted"} :
       ChatMember(SuperGroup, u, TRUE, new_status, CalmEnv)

SpecStore == Init /\ [][NextStore]_vars

\* The ledger's frame: who may move an entry.  Content, service and
\* edited messages in the group and in private, with file writes that may
\* fail; the operator's /scan and /fixnames and member 1's /ping; removals
\* and restarts; at instants within and between seconds.
NextFrame ==
  \/ \E o \in 0..MaxOffset : Advance(LastDay * DayTicks + o)
  \/ Restart
  \/ \E msg \in {TextMsg("hola"), Pinned}, io \in BOOLEAN :
       Message(SuperGroup, 1, TRUE, msg, Env(io, TRUE, TRUE, GoodBot, NoFault))
  \/ \E io \in BOOLEAN :
       Message(SuperGroup, 2, FALSE, Photo, Env(io, TRUE, TRUE, GoodBot, NoFault))
  \/ Message(1, 1, TRUE, TextMsg("hola"), CalmEnv)
  \/ EditedMessage(SuperGroup, 2)
  \/ \E text \in {"/scan", "/fixnames"}, io \in BOOLEAN :
       Message(SuperGroup, 9, TRUE, TextMsg(text), Env(io, TRUE, TRUE, GoodBot, NoFault))
  \/ Message(SuperGroup, 1, TRUE, TextMsg("/ping"), CalmEnv)
  \/ ChatMember(SuperGroup, 2, TRUE, "kicked", CalmEnv)

SpecFrame == Init /\ [][NextFrame]_vars

\* Two chats: member 1 writes in the supergroup and in the other group,
\* member 2 in the supergroup, and three weeks later the operator sends
\* /scan in either, with the faults a scan can meet.
NextChats ==
  \/ Advance(LastDay * DayTicks)
  \/ \E c \in Groups : Message(c, 1, TRUE, TextMsg("hola"), CalmEnv)
  \/ Message(SuperGroup, 2, TRUE, TextMsg("hola"), CalmEnv)
  \/ \E c \in Groups :
       \E fl \in ScanFaults(activity, c, clock, SAFE_MODE) :
          Message(c, 9, TRUE, TextMsg("/scan"), Env(TRUE, TRUE, TRUE, GoodBot, fl))

SpecChats == Init /\ [][NextChats]_vars

\* Two threads of the server: one handles the operator's /scan step by
\* step while the other handles the members' messages, each in one piece.
\* (Entries are only inserted or overwritten here: the iterator's place
\* after a deletion followed by an insertion depends on the dict's layout.)
NextConc ==
  \/ Advance(LastDay * DayTicks)
  \/ \E u \in Members : Message(SuperGroup, u, TRUE, TextMsg("hola"), CalmEnv)
  \/ ScanBegin(SuperGroup, 9, CalmEnv)
  \/ ScanNext
  \/ ScanAct(CalmEnv)
  \/ ScanRaised

SpecConc == Init /\ [][NextConc]_vars

(***************************** properties **********************************)
\* the update just handled was a /scan that reached ejecutar_scan
ScanRan ==
  /\ upd.kind = "message"
  /\ "text" \in upd.msg.keys
  /\ Cmd[upd.msg.text] = "/scan"
  /\ es_grupo(ChatType(upd.chat))
  /\ es_admin_en_este_chat(status, ChatType(upd.chat), upd.user, upd.query)
  /\ puede_expulsar(upd.bot)

\* the scan ran and went through all of ejecutar_scan
ScanDone ==
  /\ ScanRan
  /\ out # <<>>
  /\ out[Len(out)].text \in {"no_inactivos", "modo_seguro", "expulsiones"}

\* calls has a notice about member m, sent or attempted
Noticed(calls, m) ==
  \E i \in DOMAIN calls :
     calls[i].api = "send_message" /\ calls[i].text = "inactivo" /\ calls[i].user = m

\* calls has a ban of member m, done or attempted
Banned(calls, m) ==
  \E i \in DOMAIN calls : calls[i].api = "ban_chat_member" /\ calls[i].user = m

\* the scan acted on member m
Processed(calls, m) == Noticed(calls, m) \/ Banned(calls, m)

\* the entries of the scanned chat
ChatEntries == {i \in DOMAIN activity : activity[i].chat = upd.chat}

Privileged(u) == u \in Members /\ status[u] \in {"administrator", "creator"}

\* C1: in an enforcing scan, no ban is issued for a member whose chat status
\* is administrator or creator when the scan acts
C1_NoBanOfPrivileged ==
  (ScanRan /\ ~SAFE_MODE) => \A u \in Members : Banned(out, u) => ~Privileged(u)

\* C2: in a dry-run scan nobody is banned or unbanned, and every member due
\* for removal gets its notice
C2_DryRunNotifiesEveryDue ==
  (ScanRan /\ SAFE_MODE) =>
     /\ \A i \in DOMAIN out : out[i].api \notin {"ban_chat_member", "unban_chat_member"}
     /\ \A i \in ChatEntries :
          Stale(activity[i], clock) => Noticed(out, activity[i].user)

\* C10: a failed call for one member does not stop the scan: every stale
\* member of the chat is processed, the summary is sent, and a failed
\* removal is listed in it with its member
C10_FailureDoesNotStopScan ==
  ScanRan =>
     /\ \A i \in ChatEntries :
          Stale(activity[i], clock) => Processed(out, activity[i].user)
     /\ ScanDone
     /\ \A u \in Members :
          (\E i \in DOMAIN out : out[i].user = u /\ ~out[i].ok
                                 /\ out[i].api \in {"ban_chat_member", "unban_chat_member"})
          => \E j \in DOMAIN out[Len(out)].fallidos : out[Len(out)].fallidos[j][1] = u

\* every call of calls went through
Clean(calls) == \A i \in DOMAIN calls : calls[i].ok

\* a dry-run scan ran and none of its calls failed
DryScanClean == ScanRan /\ SAFE_MODE /\ Clean(out)

\* C3 as stated: of two dry-run scans of a chat in immediate succession, the
\* second sends no notice for a member the first one sent a notice for
C3_AtMostOneNotice ==
  [][(DryScanClean /\ DryScanClean' /\ upd'.chat = upd.chat)
       => \A u \in Members : ~(Noticed(out, u) /\ Noticed(out', u))]_vars

\* C3 amended: nothing is remembered of a notice; of two dry-run scans of a
\* chat in immediate succession without a failed call, the second repeats
\* every notice of the first
C3_SecondScanRepeatsNotices ==
  [][(DryScanClean /\ DryScanClean' /\ upd'.chat = upd.chat)
       => \A u \in Members : Noticed(out, u) => Noticed(out', u)]_vars

\* C3 witness: a dry-run scan has posted the second notice about a member
\* whose entry was not written in between
C3_NoticedTwice ==
  DryScanClean /\ \E u \in Members : Noticed(out, u) /\ notices[<<upd.chat, u>>] >= 2

\* C4: after an enforcing scan, the ledger has no entry for a member the
\* scan removed
C4_RemovedMemberHasNoEntry ==
  (ScanDone /\ ~SAFE_MODE) =>
     \A j \in DOMAIN out[Len(out)].expulsados :
        ~HasKey(activity, upd.chat, out[Len(out)].expulsados[j][1])

\* C5 as stated: a scan that goes through selects an entry exactly when its
\* age in whole days is at least INACTIVITY_DAYS
C5_SelectedFromThresholdOn ==
  ScanDone =>
     \A i \in ChatEntries :
        Processed(out, activity[i].user)
          <=> AgeDays(clock, activity[i].last_seen) >= INACTIVITY_DAYS

\* C5 amended: a scan acts only on entries whose time since last_seen is
\* more than INACTIVITY_DAYS days, and, unless a failed notice cut it short,
\* on every such entry; at exactly INACTIVITY_DAYS days the entry is left
C5_SelectedPastThreshold ==
  ScanRan =>
     \A i \in ChatEntries :
        /\ Processed(out, activity[i].user)
             => clock - activity[i].last_seen > Days(INACTIVITY_DAYS)
        /\ (ScanDone /\ clock - activity[i].last_seen > Days(INACTIVITY_DAYS))
             => Processed(out, activity[i].user)

\* C5 witness: a scan went through with one entry exactly INACTIVITY_DAYS
\* days old, which it left, and an older one, which it acted on
C5_ScanAtExactThreshold ==
  /\ ScanDone
  /\ \E i \in ChatEntries :
        /\ clock - activity[i].last_seen = Days(INACTIVITY_DAYS)
        /\ ~Processed(out, activity[i].user)
  /\ \E i \in ChatEntries : Processed(out, activity[i].user)

EntryFields == {"chat", "user", "last_seen", "username", "name"}

\* C6 as stated: a scan that goes through warns the member last seen 12
\* days ago, acts on the one last seen 20 days ago and leaves the one last
\* seen 1 day ago
C6_WarnedBeforeThreshold ==
  ScanDone =>
     \A i \in ChatEntries :
        LET age == AgeDays(clock, activity[i].last_seen)
        IN /\ age = 12 => Noticed(out, activity[i].user)
           /\ age = 20 => Processed(out, activity[i].user)
           /\ age = 1 => ~Processed(out, activity[i].user)

\* C6 amended: there is no warning lead time and no warned flag: a scan does
\* nothing about the member last seen 12 days ago nor about the one last seen
\* 1 day ago, and acts on the one last seen 20 days ago unless a failed
\* notice cut it short; an entry holds no more than last_seen and the names
C6_NoWarningBeforeThreshold ==
  ScanRan =>
     \A i \in ChatEntries :
        LET age == AgeDays(clock, activity[i].last_seen)
        IN /\ DOMAIN activity[i] = EntryFields
           /\ age = 12 => ~Processed(out, activity[i].user)
           /\ age = 1 => ~Processed(out, activity[i].user)
           /\ (age = 20 /\ ScanDone) => Processed(out, activity[i].user)

\* C6 witness: a scan went through with a member last seen 12 days ago, left
\* alone, and one last seen 20 days ago, acted on
C6_ScanOverTwelveAndTwenty ==
  /\ ScanDone
  /\ \E i \in ChatEntries : /\ AgeDays(clock, activity[i].last_seen) = 12
                            /\ ~Processed(out, activity[i].user)
  /\ \E i \in ChatEntries : /\ AgeDays(clock, activity[i].last_seen) = 20
                            /\ Processed(out, activity[i].user)

\* the update just handled reached actualizar_actividad
RecordRan ==
  \/ /\ upd.kind = "message"
     /\ es_grupo(ChatType(upd.chat))
     /\ es_mensaje_de_actividad(upd.msg)
  \/ /\ upd.kind = "callback_query"
     /\ upd.msg.text = "ping:active"
     /\ upd.chat # None /\ upd.user # None
  \/ /\ upd.kind = "chat_member"
     /\ upd.msg.text \in Statuses
     /\ upd.chat # None /\ upd.user # None

\* the entry of the update's sender is what the update says, as of now
Fresh ==
  /\ HasKey(activity, upd.chat, upd.user)
  /\ LET e   == Get(activity, upd.chat, upd.user)
         usr == FromUser(upd.user, upd.full)
     IN /\ e = [username  |-> usr.username,
                last_seen |-> clock,
                chat      |-> upd.chat,
                user      |-> upd.user,
                name      |-> _full_name(usr.first_name, usr.last_name)]
        /\ ~Stale(e, clock)

\* C7: a content message, a ping:active press or a join leaves the sender's
\* entry with last_seen = now and nothing of the entry before, and a scan of
\* the chat right after it does not act on that member
C7_RecordRefreshesEntry ==
  [][/\ RecordRan' => Fresh'
     /\ (RecordRan /\ ScanRan' /\ upd'.chat = upd.chat) => ~Processed(out', upd.user)]_vars

\* C7 witness: a scan went through at the instant a member's entry was
\* written, leaving that member and acting on another
C7_ScanRightAfterRecord ==
  /\ ScanDone
  /\ clock > Days(INACTIVITY_DAYS)
  /\ \E i \in ChatEntries : /\ activity[i].last_seen = clock
                            /\ ~Processed(out, activity[i].user)
  /\ \E i \in ChatEntries : Processed(out, activity[i].user)

KeysOf(act) == {<<act[i].chat, act[i].user>> : i \in DOMAIN act}

\* C8: the ledger saved and loaded back has the same keys and, under each,
\* the same last_seen to the second and the same names
C8_RoundTripKeepsLedger ==
  LET back == load_activity(save_activity(activity, file, TRUE))
  IN /\ KeysOf(back) = KeysOf(activity)
     /\ \A i \in DOMAIN activity :
          LET e == activity[i]
          IN HasKey(back, e.chat, e.user) =>
               LET b == Get(back, e.chat, e.user)
               IN /\ b.last_seen \div TicksPerSecond = e.last_seen \div TicksPerSecond
                  /\ b.username = e.username
                  /\ b.name = e.name

\* the update just handled was a command from someone who is neither an
\* operator nor, by a status query that worked, administrator or creator of
\* the chat
UnauthorizedCommand ==
  /\ upd.kind = "message"
  /\ "text" \in upd.msg.keys
  /\ IsCommand[upd.msg.text]
  /\ upd.user \notin ADMIN_IDS
  /\ ~(/\ ChatType(upd.chat) \in {"group", "supergroup"}
       /\ upd.query
       /\ Privileged(upd.user))

\* C9: a command from an unauthorized sender changes neither the ledger nor
\* the file, and the only call made is the rejection notice
C9_UnauthorizedOnlyRejected ==
  [][UnauthorizedCommand' =>
       /\ activity' = activity
       /\ file' = file
       /\ notices' = notices
       /\ out' = <<Send(upd'.chat, "solo_admins")>>]_vars

\* C9 witness: /scan from a plain member whose status query failed, with a
\* stale entry in the chat, was answered by the rejection alone
C9_ScanRejected ==
  /\ UnauthorizedCommand
  /\ Cmd[upd.msg.text] = "/scan"
  /\ ~upd.query
  /\ \E i \in ChatEntries : Stale(activity[i], clock)
  /\ out = <<Send(upd.chat, "solo_admins")>>

\* the summary of an enforcing scan lists member u as removed / as failed
ListedRemoved(u) ==
  \E j \in DOMAIN out[Len(out)].expulsados : out[Len(out)].expulsados[j][1] = u
ListedFailed(u) ==
  \E j \in DOMAIN out[Len(out)].fallidos : out[Len(out)].fallidos[j][1] = u

\* C11: in an enforcing scan, a member whose ban failed gets no unban call
\* and is reported as failed, and a member whose ban went through is
\* reported as removed whether or not the unban went through
C11_BanDecidesOutcome ==
  (ScanDone /\ ~SAFE_MODE) =>
     \A i \in DOMAIN out :
        out[i].api = "ban_chat_member" =>
           IF out[i].ok
           THEN ListedRemoved(out[i].user)
           ELSE /\ ListedFailed(out[i].user)
                /\ \A k \in DOMAIN out :
                      ~(out[k].api = "unban_chat_member" /\ out[k].user = out[i].user)

\* The sweep while the process runs: time passes, and member 1 keeps
\* writing and pressing the button; nothing makes anybody send /scan.
SpecLive ==
  /\ Init
  /\ [][Next]_vars
  /\ WF_vars(\E t \in Instants : Advance(t))
  /\ WF_vars(Message(SuperGroup, 1, TRUE, TextMsg("hola"), CalmEnv))
  /\ WF_vars(Callback(SuperGroup, 1, TRUE, "ping:active", CalmEnv))

\* member u has an entry in the supergroup that is past the threshold
StaleEntry(u) ==
  HasKey(activity, SuperGroup, u) /\ Stale(Get(activity, SuperGroup, u), clock)

\* the calls of a sweep: notices, bans and unbans
SweepCalls(calls) ==
  {i \in DOMAIN calls :
     \/ calls[i].api \in {"ban_chat_member", "unban_chat_member"}
     \/ calls[i].api = "send_message" /\ calls[i].text = "inactivo"}

\* C12 as stated: a member whose entry is past the threshold is in the end
\* evaluated by a sweep (or stops being stale), whether or not anybody
\* sends /scan
C12_EventuallySwept ==
  \A u \in Members : StaleEntry(u) ~> (ScanRan \/ ~StaleEntry(u))

\* C12 amended: there is no timer; notices, bans and unbans are issued only
\* while an authorized /scan message is handled, and the passing of time
\* by itself issues no call
C12_SweepOnlyOnScan ==
  /\ SweepCalls(out) # {} => ScanRan
  /\ upd.kind = "clock" => out = <<>>

\* C12 witness: time has passed until an entry is six days past the
\* threshold, and no call was made and no notice about it was ever posted
C12_StaleAndUnswept ==
  /\ upd.kind = "clock"
  /\ out = <<>>
  /\ \E u \in Members :
        /\ StaleEntry(u)
        /\ AgeDays(clock, Get(activity, SuperGroup, u).last_seen) = 20
        /\ notices[<<SuperGroup, u>>] = 0

\* the update just handled was a membership change to left or kicked, of a
\* member and chat with ids
LeaveRan ==
  /\ upd.kind = "chat_member"
  /\ upd.msg.text \in {"left", "kicked"}
  /\ upd.chat # None /\ upd.user # None

\* C14: a membership change to left or kicked removes the key of (chat,
\* member) from the ledger, leaves every other entry as it was, makes no
\* call, and changes nothing at all when the key was not there
C14_LeaveDeletesOnlyThatEntry ==
  [][LeaveRan' =>
       /\ KeysOf(activity') = KeysOf(activity) \ {<<upd'.chat, upd'.user>>}
       /\ \A i \in DOMAIN activity :
            ~SameKey(activity[i], upd'.chat, upd'.user)
              => \E j \in DOMAIN activity' : activity'[j] = activity[i]
       /\ out' = <<>>
       /\ ~HasKey(activity, upd'.chat, upd'.user)
            => activity' = activity /\ file' = file]_vars

\* C14 witness: after a left or kicked event the member's entry is gone,
\* from the ledger and from the file, and another member's entry is there
C14_LeftWithOthersKept ==
  /\ LeaveRan
  /\ ~HasKey(activity, upd.chat, upd.user)
  /\ \E i \in DOMAIN activity : activity[i].chat = upd.chat /\ activity[i].user = 1
  /\ file.exists
  /\ \A i \in DOMAIN file.items : file.items[i].key # Key[upd.chat, upd.user]
  /\ \E i \in DOMAIN file.items : file.items[i].key = Key[upd.chat, 1]

\* C15: in every step, an entry that is there before and after and that the
\* step did not record keeps or moves back its last_seen, so its age in
\* days does not decrease, whatever the step was (scan, /fixnames, a save, a
\* restart, an update about somebody else)
C15_AgeNeverDecreases ==
  [][\A c \in Groups, u \in Ids :
       (/\ HasKey(activity, c, u) /\ HasKey(activity', c, u)
        /\ ~(RecordRan' /\ upd'.chat = c /\ upd'.user = u))
       => /\ Get(activity', c, u).last_seen <= Get(activity, c, u).last_seen
          /\ AgeDays(clock', Get(activity', c, u).last_seen)
               >= AgeDays(clock, Get(activity, c, u).last_seen)]_vars

\* C15 witness: /fixnames has filled in the name of an entry written three
\* weeks before, whose last_seen is still the one of that day
C15_FixedNameSameLastSeen ==
  /\ upd.kind = "message"
  /\ Cmd[upd.msg.text] = "/fixnames"
  /\ upd.user \in ADMIN_IDS
  /\ \E i \in DOMAIN activity :
        /\ activity[i].user = 2
        /\ activity[i].name = "Luis"
        /\ activity[i].last_seen = 0
        /\ AgeDays(clock, activity[i].last_seen) = 20

\* C16: an update without a sender id or without a chat id leaves the
\* ledger and the file as they were and makes no call
C16_MalformedUpdateDiscarded ==
  [][(/\ upd'.kind \in {"message", "callback_query", "chat_member"}
      /\ (upd'.user = None \/ upd'.chat = None))
       => activity' = activity /\ file' = file /\ out' = <<>>]_vars

\* the members of the update's chat whose entry in memory is stale
StaleInMemory(m) ==
  HasKey(activity, upd.chat, m) /\ Stale(Get(activity, upd.chat, m), clock)

\* C17: when the file cannot be written while a message is handled, the
\* ledger in memory and the calls made are those of the same update with a
\* working file, the file stays as it was, and a scan acts on exactly the
\* members whose entry in memory is stale, whatever the file says
C17_SaveFailureKeepsMutation ==
  [][/\ (upd'.kind = "message" /\ ~upd'.io)
          => LET r == handle_message(activity, file, status, SAFE_MODE, clock,
                                     upd'.chat, upd'.user, upd'.full, upd'.msg,
                                     Env(TRUE, upd'.query, TRUE, upd'.bot, NoFault))
             IN /\ activity' = r.activity
                /\ out' = r.out
                /\ file' = file
     /\ ScanRan' => \A m \in Members : Processed(out', m) <=> StaleInMemory(m)']_vars

\* C17 witness: member 1's last message could not be saved, so the file
\* still has the entry of three weeks before; a scan whose own save failed
\* too has acted on member 2 and left member 1
C17_ScanOverStaleFile ==
  /\ ScanDone
  /\ ~upd.io
  /\ HasKey(activity, upd.chat, 1)
  /\ Get(activity, upd.chat, 1).last_seen > Days(INACTIVITY_DAYS)
  /\ \E i \in DOMAIN file.items :
        /\ file.items[i].key = Key[upd.chat, 1]
        /\ file.items[i].last_seen.sec = 0
  /\ ~Processed(out, 1)
  /\ Processed(out, 2)

\* the update handled is a message of a group or supergroup that is not a
\* command and carries a content kind
GroupContent ==
  /\ upd.kind = "message"
  /\ ChatType(upd.chat) \in {"group", "supergroup"}
  /\ ~("text" \in upd.msg.keys /\ StartsWithSlash(upd.msg.text))
  /\ upd.msg.keys \cap ActivityKeys # {}

\* C18: a message or an edited message that creates an entry or moves a
\* last_seen forward is a message of a group or supergroup that is not a
\* command and carries a content kind; any other one (private, command,
\* service, edited) leaves every key and every last_seen as it was
C18_OnlyGroupContentMovesLedger ==
  [][(/\ upd'.kind \in {"message", "edited_message"}
      /\ \E i \in DOMAIN activity' :
            \/ ~HasKey(activity, activity'[i].chat, activity'[i].user)
            \/ activity'[i].last_seen
                 > Get(activity, activity'[i].chat, activity'[i].user).last_seen)
       => GroupContent']_vars

\* C18 witness: member 1, whose entry in the supergroup is three weeks old,
\* has written to the bot in private; the entry is as it was and the
\* private chat has none
C18_PrivateMessageNotRecorded ==
  /\ upd.kind = "message"
  /\ ChatType(upd.chat) = "private"
  /\ upd.msg.keys \cap ActivityKeys # {}
  /\ upd.user = 1
  /\ clock > Days(INACTIVITY_DAYS)
  /\ HasKey(activity, SuperGroup, 1)
  /\ Get(activity, SuperGroup, 1).last_seen = 0
  /\ ~HasKey(activity, upd.chat, upd.user)

\* C19: every call of a scan goes to the scanned chat, every call about a
\* member is about one whose entry under that chat is stale, and the scan
\* leaves the whole ledger, the other chats' entries included, as it was
C19_ScanStaysInItsChat ==
  [][ScanRan' =>
       /\ \A i \in DOMAIN out' :
             /\ out'[i].chat = upd'.chat
             /\ out'[i].user # None
                  => /\ HasKey(activity, upd'.chat, out'[i].user)
                     /\ Stale(Get(activity, upd'.chat, out'[i].user), clock)
       /\ activity' = activity]_vars

\* C19 witness: an enforcing scan of the supergroup has removed member 2,
\* while member 1 has a stale entry in the other group only and was left
C19_StaleElsewhereLeft ==
  /\ ScanDone
  /\ upd.chat = SuperGroup
  /\ ~SAFE_MODE
  /\ Banned(out, 2)
  /\ ~HasKey(activity, SuperGroup, 1)
  /\ HasKey(activity, OtherGroup, 1)
  /\ Stale(Get(activity, OtherGroup, 1), clock)
  /\ ~Processed(out, 1)

\* the update handled is a /scan of a sender who may give commands
AuthorizedScan ==
  /\ upd.kind = "message"
  /\ "text" \in upd.msg.keys
  /\ Cmd[upd.msg.text] = "/scan"
  /\ \/ upd.user \in ADMIN_IDS
     \/ /\ ChatType(upd.chat) \in {"group", "supergroup"}
        /\ upd.query
        /\ Privileged(upd.user)

\* the chat is a group and the bot is its creator or an administrator
\* allowed to restrict members
ScanAllowed ==
  /\ ChatType(upd.chat) \in {"group", "supergroup"}
  /\ \/ upd.bot.status = "creator"
     \/ upd.bot.status = "administrator" /\ upd.bot.can_restrict_members

\* C20: an authorized /scan outside a group, or with the bot not creator nor
\* administrator with the right to restrict, or with the bot's status
\* unknown, makes one call, the refusal, and leaves the ledger, the file and
\* the notice history as they were
C20_ScanRefusedWithoutRights ==
  [][(AuthorizedScan' /\ ~ScanAllowed')
       => /\ Len(out') = 1
          /\ out'[1].api = "send_message"
          /\ out'[1].chat = upd'.chat
          /\ out'[1].text = IF ChatType(upd'.chat) = "private"
                            THEN "scan_en_grupos" ELSE "sin_permisos"
          /\ activity' = activity
          /\ file' = file
          /\ notices' = notices]_vars

\* C20 witness: the operator's /scan in the supergroup, with a stale entry
\* there, was refused because the bot's own status could not be read
C20_RefusedOnQueryError ==
  /\ AuthorizedScan
  /\ upd.chat = SuperGroup
  /\ upd.bot.status = "error"
  /\ \E i \in ChatEntries : Stale(activity[i], clock)
  /\ out = <<Send(SuperGroup, "sin_permisos")>>

\* C13: a scan handled while other handlers write to the ledger enumerates
\* the ledger as it was when the enumeration began: no insertion reaches
\* the iterator (which would raise), and the members it collects are the
\* stale ones of that one moment
C13_ScanEnumeratesSnapshot ==
  /\ scan.pc # "raised"
  /\ scan.pc = "enum" => KeysOf(activity) = KeysOf(scan.snapshot)
  /\ scan.pc = "act" => scan.inactivos = Inactivos(scan.snapshot, scan.chat, scan.now)

====
